---- MODULE Spec2Model ----
(***************************************************************************)
(* A model of the NMR FID scripts: read_fid (process.py), export_fid       *)
(* (process.py) and the batch copy process_fid_files (utils/file.py).      *)
(*                                                                         *)
(* Floating point values are modelled as exact rationals <<n, d>> in       *)
(* lowest terms with d > 0; 32-bit float words of a FID file are modelled  *)
(* as integer-valued words, which float32 and float64 both hold exactly.   *)
(***************************************************************************)
EXTENDS Integers, Sequences, FiniteSets, TLC

VARIABLES
    fs,             \* the file system seen by process.py: path -> file
    result,         \* outcome of the last read_fid call
    lastRead,       \* arguments of the last read_fid call
    lastExport,     \* path -> arguments of the last export_fid call on it
    fid_file_list,  \* process_fid_files: the FID files still to be handled
    done_list,      \* process_fid_files: <<file, copy succeeded>> handled so far
    dest,           \* process_fid_files: the destination folder, name -> content
    pc              \* process_fid_files: "idle", "loop", "done" or "raised"

vars == <<fs, result, lastRead, lastExport, fid_file_list, done_list, dest, pc>>

(***************************************************************************)
(* Bounds of the model.                                                    *)
(***************************************************************************)
MaxPayload == 6     \* payload words after the header of a modelled FID file
MaxRows == 2        \* rows of a DataFrame handed to export_fid
MaxDigits == 6      \* fractional digits a rendered float may need
MaxFiles == 3       \* FID files found by one process_fid_files call

(***************************************************************************)
(* Program constants.                                                      *)
(***************************************************************************)
HeaderWords == 259
WordBytes == 4
DefaultSw == 20833

(***************************************************************************)
(* Exact arithmetic for Python floats.                                     *)
(***************************************************************************)
Abs(n) == IF n < 0 THEN -n ELSE n

RECURSIVE GCD(_, _)
GCD(a, b) == IF b = 0 THEN a ELSE GCD(b, a % b)

Rat(n, d) ==
    LET g == GCD(Abs(n), Abs(d))
        s == IF d < 0 THEN -1 ELSE 1
    IN  <<s * (n \div g), (s * d) \div g>>

RatSub(a, b) == Rat(a[1] * b[2] - b[1] * a[2], a[2] * b[2])
RatMul(a, b) == Rat(a[1] * b[1], a[2] * b[2])
RatDiv(a, b) == Rat(a[1] * b[2], a[2] * b[1])
RatOfInt(n) == <<n, 1>>
\* int(x) for x >= 0
IntOf(a) == a[1] \div a[2]

(***************************************************************************)
(* Files.  A binary file is its whole 4-byte words plus the number of      *)
(* bytes (0..3) left over after the last whole word; a text file is its    *)
(* lines, each the sequence of its tab-separated fields.                   *)
(***************************************************************************)
NoFile == [kind |-> "none", data |-> <<>>, rem |-> 0]
BinFile(words, rem) == [kind |-> "bin", data |-> words, rem |-> rem]
TextFile(lines) == [kind |-> "text", data |-> lines, rem |-> 0]

\* os.path.exists
PathExists(files, path) == files[path].kind # "none"

(***************************************************************************)
(* read_fid                                                                *)
(***************************************************************************)
Raise(kind, opened) ==
    [kind |-> kind, xaxis |-> <<>>, real |-> <<>>, imag |-> <<>>, opened |-> opened]

NoResult == Raise("none", FALSE)

\* raw_data[259:]
fid_data_skip258(raw_data) == SubSeq(raw_data, HeaderWords, Len(raw_data))
fid_data(raw_data) == SubSeq(raw_data, HeaderWords + 1, Len(raw_data))

\* data_points = len(fid_data) / 2, a float
data_points(fid) == Rat(Len(fid), 2)

\* time = (data_points - 1) / sw, for sw # 0
time_no_minus_one(dp, sw) == RatDiv(dp, RatOfInt(sw))
time(dp, sw) == RatDiv(RatSub(dp, RatOfInt(1)), RatOfInt(sw))

\* np.linspace(0, stop, num): num samples, step = stop / (num - 1), the last
\* sample set to stop; a single sample is 0 * stop.
linspace(stop, num) ==
    LET step == IF num > 1 THEN RatDiv(stop, RatOfInt(num - 1)) ELSE stop
    IN  [i \in 1..num |->
            IF num > 1 /\ i = num THEN stop ELSE RatMul(RatOfInt(i - 1), step)]

\* seq[start::2] with start a 0-based index
Stride2(seq, start) ==
    [i \in 1..((Len(seq) - start + 1) \div 2) |-> seq[start + 2 * i - 1]]

\* pd.DataFrame(data_dict): the columns must have one length
DataFrame(xaxis, real, imag) ==
    IF Len(xaxis) = Len(real) /\ Len(real) = Len(imag)
    THEN [kind |-> "Signal", xaxis |-> xaxis, real |-> real, imag |-> imag,
          opened |-> TRUE]
    ELSE Raise("ValueError", TRUE)

read_fid_missing_as_empty(files, fid_path, sw) ==
    LET fid == fid_data(files[fid_path].data)
    IN  IF files[fid_path].rem # 0 THEN Raise("ValueError", TRUE)
        ELSE IF sw = 0 THEN Raise("ZeroDivisionError", TRUE)
        ELSE DataFrame(linspace(time(data_points(fid), sw), IntOf(data_points(fid))),
                       Stride2(fid, 0), Stride2(fid, 1))

read_fid(files, fid_path, sw) ==
    IF ~PathExists(files, fid_path) THEN Raise("FileNotFoundError", FALSE)
    ELSE
        \* np.frombuffer(raw_data, "<f")
        IF files[fid_path].rem # 0 THEN Raise("ValueError", TRUE)
        ELSE
            LET raw_data == files[fid_path].data
                fid == fid_data(raw_data)
                dp == data_points(fid)
            IN  IF sw = 0 THEN Raise("ZeroDivisionError", TRUE)
                ELSE DataFrame(linspace(time(dp, sw), IntOf(dp)),
                               Stride2(fid, 0), Stride2(fid, 1))

(***************************************************************************)
(* Inputs of read_fid.                                                     *)
(***************************************************************************)
InPaths == {"a.fid", "b.fid"}
Words == {-1, 3}
SampleRates == {-2, 0, 1, 2, DefaultSw}

Header(fill, last) == [i \in 1..HeaderWords |-> IF i = HeaderWords THEN last ELSE fill]
Headers == {Header(0, 0), Header(7, 7), Header(0, 5)}
Payloads == UNION {[1..n -> Words] : n \in 0..MaxPayload}
ShortLens == {0, 1, HeaderWords - 1}

\* Files whose byte length is a multiple of 4: shorter than the header, or
\* the header and a payload of 0..MaxPayload words.
WholeFiles ==
    {BinFile(SubSeq(h, 1, n), 0) : h \in Headers, n \in ShortLens}
        \cup {BinFile(h \o p, 0) : h \in Headers, p \in Payloads}

\* Files with 1..3 bytes after the last whole word.
RaggedFiles ==
    {BinFile(<<>>, WordBytes - 1), BinFile(Header(0, 0) \o <<3, -1>>, 1)}

FidFiles == WholeFiles \cup RaggedFiles

NotCalled == [called |-> FALSE, path |-> "", sw |-> 0]

NoBatch ==
    /\ fid_file_list = <<>>
    /\ done_list = <<>>
    /\ dest = <<>>
    /\ pc = "idle"

Init ==
    /\ \E f \in FidFiles \cup {NoFile}, g \in {NoFile, BinFile(Header(0, 0) \o <<3, 3>>, 0)} :
            fs = [p \in InPaths |-> IF p = "a.fid" THEN f ELSE g]
    /\ result = NoResult
    /\ lastRead = NotCalled
    /\ lastExport = <<>>
    /\ NoBatch

ReadFid ==
    \E fid_path \in InPaths, sw \in SampleRates :
        /\ result' = read_fid(fs, fid_path, sw)
        /\ lastRead' = [called |-> TRUE, path |-> fid_path, sw |-> sw]
        /\ UNCHANGED <<fs, lastExport, fid_file_list, done_list, dest, pc>>

Next == ReadFid

Spec == Init /\ [][Next]_vars

(***************************************************************************)
(* Properties of read_fid.                                                 *)
(***************************************************************************)
ReadFile == fs[lastRead.path]
ReadWords == ReadFile.data
PayloadLen == Len(ReadWords) - HeaderWords

\* The last call read an existing file of whole words.
ReadWhole == lastRead.called /\ PathExists(fs, lastRead.path) /\ ReadFile.rem = 0

\* The last call read 259 + 2N words, N >= 1, at a positive sample rate.
ReadValid ==
    /\ ReadWhole
    /\ PayloadLen >= 2
    /\ PayloadLen % 2 = 0
    /\ lastRead.sw > 0

IsError(r) == r.kind \in {"FileNotFoundError", "ValueError", "ZeroDivisionError"}

\* C1: a buffer of 259 + 2N words (N >= 1) read at a rate > 0 gives a Signal
\* with N real and N imag entries, real[k] = word[259 + 2k] and
\* imag[k] = word[259 + 2k + 1] (0-based), and the same Signal whatever the
\* first 259 words are.
C1_Deinterleave ==
    ReadValid =>
        LET N == PayloadLen \div 2
            payload == SubSeq(ReadWords, HeaderWords + 1, Len(ReadWords))
        IN  /\ result.kind = "Signal"
            /\ Len(result.real) = N
            /\ Len(result.imag) = N
            /\ \A k \in 0..(N - 1) :
                    /\ result.real[k + 1] = ReadWords[HeaderWords + 2 * k + 1]
                    /\ result.imag[k + 1] = ReadWords[HeaderWords + 2 * k + 2]
            /\ \A h \in Headers :
                    read_fid([fs EXCEPT ![lastRead.path] = BinFile(h \o payload, 0)],
                             lastRead.path, lastRead.sw) = result

C1_Witness ==
    /\ ReadValid
    /\ PayloadLen = 4
    /\ ReadWords[HeaderWords] = 5
    /\ result.real = <<3, -1>>
    /\ result.imag = <<-1, 3>>

\* C5: for N >= 1 samples read at a rate > 0 the time axis has N points,
\* starts at 0, has time_axis[i] = i / rate, and ends at (N - 1) / rate.
C5_TimeAxis ==
    ReadValid =>
        LET N == PayloadLen \div 2
        IN  /\ result.kind = "Signal"
            /\ Len(result.xaxis) = N
            /\ result.xaxis[1] = <<0, 1>>
            /\ \A i \in 0..(N - 1) :
                    /\ result.xaxis[i + 1][2] > 0
                    /\ result.xaxis[i + 1][1] * lastRead.sw = i * result.xaxis[i + 1][2]
            /\ result.xaxis[N][1] * lastRead.sw = (N - 1) * result.xaxis[N][2]

C5_Witness ==
    /\ ReadValid
    /\ PayloadLen = 6
    /\ lastRead.sw = 2
    /\ result.xaxis = <<<<0, 1>>, <<1, 2>>, <<1, 1>>>>

C5_WitnessSingle ==
    /\ ReadValid
    /\ PayloadLen = 2
    /\ result.xaxis = <<<<0, 1>>>>

\* C9: read_fid on a path that does not exist raises FileNotFoundError
\* without opening the file, whatever the sample rate, and returns no Signal.
C9_NotFound ==
    (lastRead.called /\ ~PathExists(fs, lastRead.path)) =>
        /\ result.kind = "FileNotFoundError"
        /\ ~result.opened
        /\ result.xaxis = <<>> /\ result.real = <<>> /\ result.imag = <<>>

C9_Witness ==
    /\ lastRead.called
    /\ ~PathExists(fs, lastRead.path)
    /\ lastRead.sw = 0
    /\ result.kind = "FileNotFoundError"

\* C2: a buffer of 259 + 2k + 1 words (k >= 1) read at a rate > 0 gives a
\* Signal whose three sequences have length k, and no error.
C2_OddPayloadTruncated ==
    (ReadWhole /\ PayloadLen >= 3 /\ PayloadLen % 2 = 1 /\ lastRead.sw > 0) =>
        LET k == PayloadLen \div 2
        IN  /\ result.kind = "Signal"
            /\ Len(result.xaxis) = k
            /\ Len(result.real) = k
            /\ Len(result.imag) = k

\* C3: a buffer of at most 259 words makes read_fid fail; it never returns
\* an empty Signal.  (Stated for the calls with a sample rate > 0, where the
\* missing payload is the only thing wrong with the call.)
C3_HeaderOnlyRejected ==
    (ReadWhole /\ Len(ReadWords) <= HeaderWords /\ lastRead.sw > 0) => IsError(result)

\* C4: a sample rate <= 0 makes read_fid fail, whatever the buffer holds; it
\* never returns a Signal.  (Stated for the buffers of 259 + 2N words, N >= 1,
\* where the sample rate is the only thing wrong with the call.)
C4_NonPositiveRateRejected ==
    (ReadWhole /\ PayloadLen >= 2 /\ PayloadLen % 2 = 0 /\ lastRead.sw <= 0) =>
        IsError(result)

(***************************************************************************)
(* export_fid                                                              *)
(***************************************************************************)
\* The digits after the decimal point of r / d, 0 <= r < d.
RECURSIVE FracDigits(_, _, _)
FracDigits(r, d, fuel) ==
    IF r = 0 \/ fuel = 0 THEN ""
    ELSE ToString((10 * r) \div d) \o FracDigits((10 * r) % d, d, fuel - 1)

\* The text Python writes for a float with a short decimal expansion:
\* 3.0 -> "3.0", -1.0 -> "-1.0", 0.25 -> "0.25".
FormatFloat(a) ==
    LET n == Abs(a[1])
        frac == FracDigits(n % a[2], a[2], MaxDigits)
    IN  (IF a[1] < 0 THEN "-" ELSE "") \o ToString(n \div a[2]) \o "."
            \o (IF frac = "" THEN "0" ELSE frac)

\* The columns of the DataFrame read_fid builds, in the order of data_dict.
Columns == <<"xaxis", "real", "imag">>

Cell(data, col, k) == IF col = "xaxis" THEN data.xaxis[k] ELSE RatOfInt(data[col][k])

\* if os.path.exists(fid_path): os.remove(fid_path)
remove_if_exists(files, fid_path) ==
    IF PathExists(files, fid_path) THEN [files EXCEPT ![fid_path] = NoFile] ELSE files

\* with open(fid_path, 'w') as f: the two header lines
write_header(files, fid_path, freq) ==
    [files EXCEPT ![fid_path] =
        TextFile(<<<<"Frequency", FormatFloat(freq)>>, <<"Nucleus", "Unknown">>>>)]

\* with open(fid_path, 'a') as f: the two header lines
write_header_append(files, fid_path, freq) ==
    [files EXCEPT ![fid_path] =
        TextFile(@.data \o <<<<"Frequency", FormatFloat(freq)>>, <<"Nucleus", "Unknown">>>>)]

\* data.to_csv(..., header=True, ...): a row of column names, then the rows
to_csv_with_header(files, data, fid_path) ==
    [files EXCEPT ![fid_path] =
        TextFile(@.data \o <<Columns>>
                    \o [k \in 1..Len(data.xaxis) |->
                            [c \in 1..Len(Columns) |-> FormatFloat(Cell(data, Columns[c], k))]])]

\* data.to_csv(fid_path, sep='\t', header=None, index=False, mode='a'): one
\* line per row, appended, the fields in column order
to_csv(files, data, fid_path) ==
    [files EXCEPT ![fid_path] =
        TextFile(@.data
                    \o [k \in 1..Len(data.xaxis) |->
                            [c \in 1..Len(Columns) |-> FormatFloat(Cell(data, Columns[c], k))]])]

export_fid_appending(files, data, fid_path, freq) ==
    to_csv(write_header_append(files, fid_path, freq), data, fid_path)

export_fid(files, data, fid_path, freq) ==
    to_csv(write_header(remove_if_exists(files, fid_path), fid_path, freq), data, fid_path)

(***************************************************************************)
(* Inputs of export_fid.                                                   *)
(***************************************************************************)
OutPaths == {"1.txt", "2.txt"}
ExportRates == {4}
Freqs == {Rat(400, 1), Rat(2247, 40)}
NucleusLabels == {"Unknown", "1H"}
ExportRecords == [frequency_mhz : Freqs, nucleus_label : NucleusLabels]

\* The interleaved payloads the exported DataFrames are decoded from.
PayloadA(n) == [i \in 1..(2 * n) |-> IF i % 2 = 1 THEN 3 ELSE -1]
PayloadB(n) == [i \in 1..(2 * n) |-> IF i % 4 = 0 THEN 3 ELSE -1]

\* What read_fid returns for a file with the payload p.
Decoded(p, sw) ==
    read_fid([q \in {"a.fid"} |-> BinFile(Header(0, 0) \o p, 0)], "a.fid", sw)

Frames ==
    {Decoded(PayloadA(n), sw) : n \in 0..MaxRows, sw \in ExportRates}
        \cup {Decoded(PayloadB(n), sw) : n \in 0..MaxRows, sw \in ExportRates}

StaleLine == <<"stale", "0.0", "0.0">>
StaleFiles == {TextFile(<<>>), TextFile(<<StaleLine>>), TextFile([i \in 1..(MaxRows + 4) |-> StaleLine])}

NotExported ==
    [called |-> FALSE, data |-> NoResult, record |-> [frequency_mhz |-> <<0, 1>>, nucleus_label |-> ""],
     shrunk |-> FALSE]

InitExport ==
    /\ fs \in [OutPaths -> StaleFiles \cup {NoFile}]
    /\ result = NoResult
    /\ lastRead = NotCalled
    /\ lastExport = [p \in OutPaths |-> NotExported]
    /\ NoBatch

\* The caller holds an export record; export_fid takes the frequency only.
ExportFid ==
    \E data \in Frames, fid_path \in OutPaths, record \in ExportRecords :
        /\ fs' = export_fid(fs, data, fid_path, record.frequency_mhz)
        /\ lastExport' = [lastExport EXCEPT ![fid_path] =
                [called |-> TRUE, data |-> data, record |-> record,
                 shrunk |-> Len(fs[fid_path].data) > 2 + Len(data.xaxis)]]
        /\ UNCHANGED <<result, lastRead, fid_file_list, done_list, dest, pc>>

NextExport == ExportFid

SpecExport == InitExport /\ [][NextExport]_vars

(***************************************************************************)
(* Properties of export_fid.                                               *)
(***************************************************************************)
\* The lines the call recorded in e writes: the two header lines, then one
\* line per sample.
ExpectedLines(e) ==
    <<<<"Frequency", FormatFloat(e.record.frequency_mhz)>>, <<"Nucleus", "Unknown">>>>
        \o [k \in 1..Len(e.data.xaxis) |->
                <<FormatFloat(e.data.xaxis[k]), FormatFloat(RatOfInt(e.data.real[k])),
                  FormatFloat(RatOfInt(e.data.imag[k]))>>]

\* C6: after any sequence of export_fid calls on a path, whatever the path
\* held before, the file holds exactly what the last call wrote: nothing of
\* the earlier content or of earlier exports remains.
C6_FullyReplaced ==
    \A p \in OutPaths :
        lastExport[p].called =>
            /\ fs[p].kind = "text"
            /\ fs[p].data = ExpectedLines(lastExport[p])
            /\ \A i \in 1..Len(fs[p].data) : fs[p].data[i] # StaleLine

C6_Witness ==
    \E p \in OutPaths :
        /\ lastExport[p].called
        /\ lastExport[p].shrunk
        /\ Len(fs[p].data) = 3

\* C7: the document export_fid writes for N samples has N + 2 lines: the
\* Frequency line, the Nucleus line, then sample k on line k + 3 as the three
\* fields time_axis[k], real[k], imag[k]; no column names, no index column,
\* nothing after the last sample.
C7_Layout ==
    \A p \in OutPaths :
        lastExport[p].called =>
            LET e == lastExport[p]
                N == Len(e.data.xaxis)
                doc == fs[p].data
            IN  /\ Len(doc) = N + 2
                /\ Len(doc[1]) = 2 /\ doc[1][1] = "Frequency"
                /\ Len(doc[2]) = 2 /\ doc[2][1] = "Nucleus"
                /\ \A k \in 0..(N - 1) :
                        /\ Len(doc[k + 3]) = 3
                        /\ doc[k + 3][1] = FormatFloat(e.data.xaxis[k + 1])
                        /\ doc[k + 3][2] = FormatFloat(RatOfInt(e.data.real[k + 1]))
                        /\ doc[k + 3][3] = FormatFloat(RatOfInt(e.data.imag[k + 1]))

C7_Witness ==
    \E p \in OutPaths :
        /\ lastExport[p].called
        /\ fs[p].data = <<<<"Frequency", "56.175">>, <<"Nucleus", "Unknown">>,
                          <<"0.0", "3.0", "-1.0">>, <<"0.25", "3.0", "-1.0">>>>

\* C8: line 2 of the document is "Nucleus" and the nucleus label of the
\* caller's export record.
C8_NucleusLabel ==
    \A p \in OutPaths :
        lastExport[p].called =>
            fs[p].data[2] = <<"Nucleus", lastExport[p].record.nucleus_label>>

(***************************************************************************)
(* process_fid_files.  A path is the sequence of its '/'-separated         *)
(* segments and a segment the sequence of its characters; the content of   *)
(* a file of the destination folder is the source path it was copied from. *)
(***************************************************************************)
Min(a, b) == IF a < b THEN a ELSE b

RECURSIVE Join(_, _)
Join(pieces, sep) ==
    IF pieces = <<>> THEN <<>>
    ELSE IF Len(pieces) = 1 THEN pieces[1]
    ELSE pieces[1] \o sep \o Join(Tail(pieces), sep)

NotDot(c) == c # "."

IndexError == <<"IndexError">>

\* path_parts[5] is read without a length check; the slices are not.
build_file_name(src_path) ==
    IF Len(src_path) < 6 THEN IndexError
    ELSE
        LET path_parts == src_path
            date_part == SelectSeq(path_parts[6], NotDot)
            last == path_parts[Len(path_parts)]
            file_name ==
                Join(<<path_parts[5]>> \o <<date_part>>
                        \o SubSeq(path_parts, 7, Min(8, Len(path_parts)))
                        \o <<SubSeq(last, 1, Len(last) - 4)>>,
                     <<"-">>)
        IN  file_name \o <<".", "f", "i", "d">>

\* shutil.copy2 inside try/except: a failure is printed and swallowed
move_files(folder, src, name, ok) ==
    IF ok
    THEN [n \in DOMAIN folder \cup {name} |-> IF n = name THEN src ELSE folder[n]]
    ELSE folder

\* os.replace(old, new) for an existing old
os_replace(folder, old, new) ==
    [n \in (DOMAIN folder \ {old}) \cup {new} |-> IF n = new THEN folder[old] ELSE folder[n]]

Avg3 == <<"a", "3", ".", "f", "i", "d">>
Avg1 == <<"a", "1", ".", "f", "i", "d">>
Average == <<"a", "v", "e", "r", "a", "g", "e">>
Fid == <<"f", "i", "d">>
Run(n, file) ==
    <<<<"D", ":">>, <<"w">>, <<"x">>, <<"y">>, <<"s", "1">>, <<"2", "4", ".", "0", "1">>,
      <<n>>, Average, Fid, file>>

\* Three files of a dated tree and one found under a relative folder.
SrcFiles == {Run("5", Avg3), Run("6", Avg3), Run("5", Avg1), <<<<"d">>, <<"s", "1">>, Average, Fid, Avg3>>}

RECURSIVE Lists(_)
Lists(n) ==
    IF n = 0 THEN {<<>>}
    ELSE Lists(n - 1)
            \cup {Append(l, f) : l \in {m \in Lists(n - 1) : Len(m) = n - 1}, f \in SrcFiles}

NoRepeat(l) == \A i, j \in 1..Len(l) : i # j => l[i] # l[j]

OldCopy == <<<<"o", "l", "d">>>>

InitBatch ==
    /\ fs = <<>>
    /\ result = NoResult
    /\ lastRead = NotCalled
    /\ lastExport = <<>>
    /\ fid_file_list \in {l \in Lists(MaxFiles) : NoRepeat(l)}
    /\ done_list = <<>>
    /\ dest \in {<<>>, [n \in {Avg3} |-> OldCopy]}
    /\ pc = IF fid_file_list = <<>> THEN "done" ELSE "loop"

\* One turn of the loop over fid_file_list.
process_fid_file ==
    /\ pc = "loop"
    /\ fid_file_list # <<>>
    /\ LET fid_file == Head(fid_file_list)
           name == fid_file[Len(fid_file)]
           new_name == build_file_name(fid_file)
       IN  IF new_name = IndexError
           THEN /\ pc' = "raised"
                /\ UNCHANGED <<fid_file_list, done_list, dest>>
           ELSE \E ok \in BOOLEAN :
                    LET copied == move_files(dest, fid_file, name, ok)
                    IN  /\ done_list' = Append(done_list, <<fid_file, ok>>)
                        /\ fid_file_list' = Tail(fid_file_list)
                        /\ IF name \in DOMAIN copied
                           THEN /\ dest' = os_replace(copied, name, new_name)
                                /\ pc' = IF Tail(fid_file_list) = <<>> THEN "done" ELSE "loop"
                           ELSE /\ dest' = copied
                                /\ pc' = "raised"
    /\ UNCHANGED <<fs, result, lastRead, lastExport>>

NextBatch == process_fid_file

SpecBatch == InitBatch /\ [][NextBatch]_vars

(***************************************************************************)
(* Properties of process_fid_files.                                        *)
(***************************************************************************)
\* Every file of the batch has a path build_file_name can build a name from.
AllNamed ==
    /\ \A i \in 1..Len(done_list) : build_file_name(done_list[i][1]) # IndexError
    /\ \A i \in 1..Len(fid_file_list) : build_file_name(fid_file_list[i]) # IndexError

\* C10: one failed copy does not abort the batch: once the call has ended,
\* every file after a file whose copy failed has been copied to the
\* destination folder and renamed with its built name.  (Stated for the
\* batches in which a name can be built for every file, so that the failed
\* copy is the only failure.)
C10_BatchContinues ==
    \A i \in 1..Len(done_list) :
        (pc \in {"done", "raised"} /\ AllNamed /\ ~done_list[i][2]) =>
            /\ fid_file_list = <<>>
            /\ \A j \in (i + 1)..Len(done_list) :
                    /\ build_file_name(done_list[j][1]) \in DOMAIN dest
                    /\ dest[build_file_name(done_list[j][1])] = done_list[j][1]

\* When every copy succeeds and every path is deep enough, all files arrive.
BatchAllArrive ==
    (pc = "done" /\ \A i \in 1..Len(done_list) : done_list[i][2]) =>
        \A i \in 1..Len(done_list) :
            /\ build_file_name(done_list[i][1]) \in DOMAIN dest
            /\ dest[build_file_name(done_list[i][1])] = done_list[i][1]

====
